---- MODULE Spec2Model ----
(***************************************************************************)
(* Model of td/mtproto/AuthData.cpp: the per-session MTProto state         *)
(* (duplicate window of inbound message ids, server time difference,       *)
(* outbound message id generator, server salts).                           *)
(*                                                                         *)
(* Numbers.  TLC integers are 32 bits wide, so the 64-bit fixed-point      *)
(* message ids are modelled at a reduced width: a message id has Shift     *)
(* fractional bits (32 in the code) and HighBits bits of seconds (32 in    *)
(* the code), is signed and two's complement as int64 is.  A double that   *)
(* holds a time is an integer number of ticks; Epsilon ticks are the 1e-4  *)
(* seconds of update_server_time_difference, so one second is              *)
(* 10000 * Epsilon ticks and the 300 / 150 / 30 second windows keep their  *)
(* values.  Floating-point rounding is not modelled.                       *)
(***************************************************************************)
EXTENDS Integers, Sequences, FiniteSets, TLC

VARIABLES
  saved_message_ids,                    \* MessageIdDuplicateChecker::saved_message_ids_
  session_id,                           \* AuthData's session id (get_session_id())
  server_time_difference,               \* AuthData::server_time_difference_, ticks
  server_time_difference_was_updated,   \* AuthData::server_time_difference_was_updated_
  last_message_id,                      \* AuthData::last_message_id_
  server_salt,                          \* AuthData::server_salt_
  future_salts,                         \* AuthData::future_salts_
  admitted,                             \* history: the ids check accepted, in order
  succeeded,                            \* history: the ids check_packet returned OK for
  op,                                   \* the operation called last
  arg_session_id,                       \* its session_id argument (check_packet)
  arg_message_id,                       \* its message_id argument (check, check_packet)
  arg_now,                              \* its now argument, or diff argument
  arg_salts,                            \* its salts argument (set_future_salts)
  arg_keys,                             \* what the key state answered it (is_ready)
  status,                               \* the Status it returned
  result                                \* its return value or out-parameter

vars == <<saved_message_ids, session_id, server_time_difference,
          server_time_difference_was_updated, last_message_id, server_salt,
          future_salts, admitted, succeeded, op, arg_session_id, arg_message_id,
          arg_now, arg_salts, arg_keys, status, result>>

-----------------------------------------------------------------------------
(* Scale of the model *)

\* The 1e-4 of update_server_time_difference, in ticks.
Epsilon == 2
TicksPerSec == 10000 * Epsilon

\* Fractional bits of a message id: the 32 of (1ll << 32) and of >> 32.
Shift == 4
\* Bits of the seconds part of a message id: int64 leaves 32.
HighBits == 10

RECURSIVE Pow2(_)
Pow2(n) == IF n = 0 THEN 1 ELSE 2 * Pow2(n - 1)

\* 1ll << 32, and the number of values of a uint32.
ShiftUnit == Pow2(Shift)
HighUnit == Pow2(HighBits)

MinInt64 == -Pow2(Shift + HighBits - 1)
MaxInt64 == Pow2(Shift + HighBits - 1) - 1

\* C++ integer division truncates toward zero (\div floors).
TruncDiv(a, b) == IF a >= 0 THEN a \div b ELSE -((-a) \div b)

\* Capacity of the duplicate window (MAX_SAVED_MESSAGE_IDS of AuthData.h),
\* reduced so that a full window and evictions are reached.
MAX_SAVED_MESSAGE_IDS == 2

Min(S) == CHOOSE x \in S : \A y \in S : x <= y

-----------------------------------------------------------------------------
(* MessageIdDuplicateChecker::check *)

\* Variants of check with one fault each: the insertion left out, the
\* eviction left out, the full-window test off by one.
CheckNoInsert(saved, message_id) ==
  IF Cardinality(saved) = MAX_SAVED_MESSAGE_IDS /\ message_id < Min(saved)
  THEN [status |-> "TooOld", saved |-> saved]
  ELSE IF message_id \in saved
  THEN [status |-> "Duplicate", saved |-> saved]
  ELSE [status |-> "OK", saved |-> saved]

CheckNoEvict(saved, message_id) ==
  IF Cardinality(saved) = MAX_SAVED_MESSAGE_IDS /\ message_id < Min(saved)
  THEN [status |-> "TooOld", saved |-> saved]
  ELSE IF message_id \in saved
  THEN [status |-> "Duplicate", saved |-> saved]
  ELSE [status |-> "OK", saved |-> saved \cup {message_id}]

CheckFullOffByOne(saved, message_id) ==
  IF Cardinality(saved) > MAX_SAVED_MESSAGE_IDS /\ message_id < Min(saved)
  THEN [status |-> "TooOld", saved |-> saved]
  ELSE IF message_id \in saved
  THEN [status |-> "Duplicate", saved |-> saved]
  ELSE LET inserted == saved \cup {message_id} IN
       [status |-> "OK",
        saved |-> IF Cardinality(inserted) > MAX_SAVED_MESSAGE_IDS
                  THEN inserted \ {Min(inserted)}
                  ELSE inserted]

\* check without the test against the least id of a full window.
CheckNoTooOld(saved, message_id) ==
  IF message_id \in saved
  THEN [status |-> "Duplicate", saved |-> saved]
  ELSE LET inserted == saved \cup {message_id} IN
       [status |-> "OK",
        saved |-> IF Cardinality(inserted) > MAX_SAVED_MESSAGE_IDS
                  THEN inserted \ {Min(inserted)}
                  ELSE inserted]

\* check erasing the greatest id, not the least.
CheckEvictMax(saved, message_id) ==
  IF Cardinality(saved) = MAX_SAVED_MESSAGE_IDS /\ message_id < Min(saved)
  THEN [status |-> "TooOld", saved |-> saved]
  ELSE IF message_id \in saved
  THEN [status |-> "Duplicate", saved |-> saved]
  ELSE LET inserted == saved \cup {message_id} IN
       [status |-> "OK",
        saved |-> IF Cardinality(inserted) > MAX_SAVED_MESSAGE_IDS
                  THEN inserted \ {CHOOSE x \in inserted : \A y \in inserted : y <= x}
                  ELSE inserted]

\* check erasing as soon as the set reaches MAX_SAVED_MESSAGE_IDS.
CheckEvictAtCapacity(saved, message_id) ==
  IF Cardinality(saved) = MAX_SAVED_MESSAGE_IDS /\ message_id < Min(saved)
  THEN [status |-> "TooOld", saved |-> saved]
  ELSE IF message_id \in saved
  THEN [status |-> "Duplicate", saved |-> saved]
  ELSE LET inserted == saved \cup {message_id} IN
       [status |-> "OK",
        saved |-> IF Cardinality(inserted) >= MAX_SAVED_MESSAGE_IDS
                  THEN inserted \ {Min(inserted)}
                  ELSE inserted]

\* The Status and the window after check(message_id): Error(2, ...) is
\* "TooOld", Error(1, ...) is "Duplicate".
check(saved, message_id) ==
  IF Cardinality(saved) = MAX_SAVED_MESSAGE_IDS /\ message_id < Min(saved)
  THEN [status |-> "TooOld", saved |-> saved]
  ELSE IF message_id \in saved
  THEN [status |-> "Duplicate", saved |-> saved]
  ELSE LET inserted == saved \cup {message_id} IN
       [status |-> "OK",
        saved |-> IF Cardinality(inserted) > MAX_SAVED_MESSAGE_IDS
                  THEN inserted \ {Min(inserted)}
                  ELSE inserted]

-----------------------------------------------------------------------------
(* Clock *)

get_server_time(diff, now) == now + diff

\* update_server_time_difference without the 1e-4 margin.
UpdateNoEpsilon(diff0, was_updated, diff) ==
  IF ~was_updated
  THEN [updated |-> TRUE, diff |-> diff, was_updated |-> TRUE]
  ELSE IF diff0 < diff
  THEN [updated |-> TRUE, diff |-> diff, was_updated |-> TRUE]
  ELSE [updated |-> FALSE, diff |-> diff0, was_updated |-> was_updated]

\* update_server_time_difference storing what it returns in the flag.
UpdateFlagIsResult(diff0, was_updated, diff) ==
  IF ~was_updated
  THEN [updated |-> TRUE, diff |-> diff, was_updated |-> TRUE]
  ELSE IF diff0 + Epsilon < diff
  THEN [updated |-> TRUE, diff |-> diff, was_updated |-> TRUE]
  ELSE [updated |-> FALSE, diff |-> diff0, was_updated |-> FALSE]

\* update_server_time_difference(diff) on the stored diff0: what it returns
\* (updated) and the members after the call.
update_server_time_difference(diff0, was_updated, diff) ==
  IF ~was_updated
  THEN [updated |-> TRUE, diff |-> diff, was_updated |-> TRUE]
  ELSE IF diff0 + Epsilon < diff
  THEN [updated |-> TRUE, diff |-> diff, was_updated |-> TRUE]
  ELSE [updated |-> FALSE, diff |-> diff0, was_updated |-> was_updated]

\* id / (1ll << 32), in seconds.
id_time(id) == TruncDiv(id, ShiftUnit)

is_valid_outbound_msg_id(diff, id, now) ==
  LET server_time == get_server_time(diff, now) IN
  /\ server_time - (300 \div 2) * TicksPerSec < id_time(id) * TicksPerSec
  /\ id_time(id) * TicksPerSec < server_time + (60 \div 2) * TicksPerSec

is_valid_inbound_msg_id(diff, id, now) ==
  LET server_time == get_server_time(diff, now) IN
  /\ server_time - 300 * TicksPerSec < id_time(id) * TicksPerSec
  /\ id_time(id) * TicksPerSec < server_time + 30 * TicksPerSec

-----------------------------------------------------------------------------
(* AuthData::check_packet *)

\* static_cast<uint32>(message_id >> 32): the arithmetic shift floors, the
\* cast wraps modulo 2^HighBits.
HighWord(message_id) == (message_id \div ShiftUnit) % HighUnit

\* check_packet with the time window evaluated before the duplicate window.
CheckPacketTimeFirst(saved, diff0, was_updated, own_sid, sid, message_id, now, out0) ==
  IF own_sid # sid
  THEN [status |-> "WrongSession", saved |-> saved, diff |-> diff0,
        was_updated |-> was_updated, time_updated |-> out0]
  ELSE IF message_id % 2 = 0
  THEN [status |-> "BadParity", saved |-> saved, diff |-> diff0,
        was_updated |-> was_updated, time_updated |-> out0]
  ELSE IF was_updated /\ ~is_valid_inbound_msg_id(diff0, message_id, now)
  THEN [status |-> "StaleOrFutureId", saved |-> saved, diff |-> diff0,
        was_updated |-> was_updated, time_updated |-> out0]
  ELSE LET c == check(saved, message_id) IN
       IF c.status # "OK"
       THEN [status |-> c.status, saved |-> saved, diff |-> diff0,
             was_updated |-> was_updated, time_updated |-> out0]
       ELSE LET u == update_server_time_difference(
                       diff0, was_updated, HighWord(message_id) * TicksPerSec - now)
            IN
            [status |-> "OK", saved |-> c.saved, diff |-> u.diff,
             was_updated |-> u.was_updated, time_updated |-> u.updated]

\* check_packet without the time-window test.
CheckPacketNoTimeWindow(saved, diff0, was_updated, own_sid, sid, message_id, now, out0) ==
  IF own_sid # sid
  THEN [status |-> "WrongSession", saved |-> saved, diff |-> diff0,
        was_updated |-> was_updated, time_updated |-> out0]
  ELSE IF message_id % 2 = 0
  THEN [status |-> "BadParity", saved |-> saved, diff |-> diff0,
        was_updated |-> was_updated, time_updated |-> out0]
  ELSE LET c == check(saved, message_id) IN
       IF c.status # "OK"
       THEN [status |-> c.status, saved |-> saved, diff |-> diff0,
             was_updated |-> was_updated, time_updated |-> out0]
       ELSE LET u == update_server_time_difference(
                       diff0, was_updated, HighWord(message_id) * TicksPerSec - now)
            IN
            [status |-> "OK", saved |-> c.saved, diff |-> u.diff,
             was_updated |-> u.was_updated, time_updated |-> u.updated]

\* The state and the Status after check_packet(sid, message_id, now), as a
\* record; time_updated is the out-parameter, left as it was on the paths
\* that return before it is assigned.
check_packet(saved, diff0, was_updated, own_sid, sid, message_id, now, out0) ==
  IF own_sid # sid
  THEN [status |-> "WrongSession", saved |-> saved, diff |-> diff0,
        was_updated |-> was_updated, time_updated |-> out0]
  ELSE IF message_id % 2 = 0
  THEN [status |-> "BadParity", saved |-> saved, diff |-> diff0,
        was_updated |-> was_updated, time_updated |-> out0]
  ELSE LET c == check(saved, message_id) IN
       IF c.status # "OK"
       THEN [status |-> c.status, saved |-> saved, diff |-> diff0,
             was_updated |-> was_updated, time_updated |-> out0]
       ELSE LET u == update_server_time_difference(
                       diff0, was_updated, HighWord(message_id) * TicksPerSec - now)
            IN
            [status |-> IF u.was_updated
                           /\ ~is_valid_inbound_msg_id(u.diff, message_id, now)
                        THEN "StaleOrFutureId"
                        ELSE "OK",
             saved |-> c.saved, diff |-> u.diff, was_updated |-> u.was_updated,
             time_updated |-> u.updated]

-----------------------------------------------------------------------------
(* AuthData::next_message_id *)

\* Bits of the random draw that are xor-ed into the id (22 in the code) and
\* bits that choose the stride (10 in the code).
JitterBits == 3
MulBits == 1

JitterUnit == Pow2(JitterBits)
MulUnit == Pow2(MulBits)

\* Bitwise xor of two naturals.
RECURSIVE XorNat(_, _)
XorNat(a, b) ==
  IF a = 0 THEN b
  ELSE IF b = 0 THEN a
  ELSE (((a % 2) + (b % 2)) % 2) + 2 * XorNat(a \div 2, b \div 2)

\* t ^ x for a two's complement t and 0 <= x < JitterUnit: only the low
\* JitterBits bits of t change.
XorLow(t, x) == (t - (t % JitterUnit)) + XorNat(t % JitterUnit, x)

\* static_cast<int64>(server_time * (1ll << 32)): the conversion truncates.
FixedPoint(server_time) == TruncDiv(server_time * ShiftUnit, TicksPerSec)

to_xor(rx) == rx % JitterUnit
to_mul(rx) == ((rx \div JitterUnit) % MulUnit) + 1

\* next_message_id with > for >= in the comparison with last_message_id_.
NextMessageIdStrictCompare(diff, last, now, rx) ==
  LET t == XorLow(FixedPoint(get_server_time(diff, now)), to_xor(rx))
      candidate == t - (t % 4)
  IN IF last > candidate THEN last + 8 * to_mul(rx) ELSE candidate

\* next_message_id taking the local time for the server time.
NextMessageIdLocalTime(diff, last, now, rx) ==
  LET t == XorLow(FixedPoint(now), to_xor(rx))
      candidate == t - (t % 4)
  IN IF last >= candidate THEN last + 8 * to_mul(rx) ELSE candidate

\* The id next_message_id(now) returns and stores, rx being the random draw;
\* t & -4 clears the two low bits of a two's complement t.
next_message_id(diff, last, now, rx) ==
  LET t == XorLow(FixedPoint(get_server_time(diff, now)), to_xor(rx))
      candidate == t - (t % 4)
  IN IF last >= candidate THEN last + 8 * to_mul(rx) ELSE candidate

-----------------------------------------------------------------------------
(* Server salts *)

\* The -1e10 of AuthData::AuthData(), a time before every time of the model
\* (in ticks, and reduced to fit TLC's integers).
SaltNever == -1000000000

\* set_future_salts without the std::sort: the list is stored as passed.
NotSorted(salts) == {salts}

\* The orders std::sort may leave salts in under the comparison
\* a.valid_since > b.valid_since: the permutations of salts that descend by
\* valid_since; salts of equal valid_since may come in either order.
SortedDescending(salts) ==
  LET n == Len(salts)
      perms == { p \in [1 .. n -> 1 .. n] : \A i, j \in 1 .. n : i # j => p[i] # p[j] }
  IN { [i \in 1 .. n |-> salts[p[i]]] : p \in
         { q \in perms : \A i \in 1 .. n - 1 :
             salts[q[i]].valid_since >= salts[q[i + 1]].valid_since } }

\* update_salt with an if for the while: at most one salt is promoted.
UpdateSaltOnce(current, future, diff, now) ==
  IF future # <<>> /\ future[Len(future)].valid_since < get_server_time(diff, now)
  THEN [server_salt |-> future[Len(future)],
        future_salts |-> SubSeq(future, 1, Len(future) - 1)]
  ELSE [server_salt |-> current, future_salts |-> future]

\* server_salt_ and future_salts_ after update_salt(now).
RECURSIVE update_salt(_, _, _, _)
update_salt(current, future, diff, now) ==
  IF future # <<>> /\ future[Len(future)].valid_since < get_server_time(diff, now)
  THEN update_salt(future[Len(future)], SubSeq(future, 1, Len(future) - 1),
                   diff, now)
  ELSE [server_salt |-> current, future_salts |-> future]

-----------------------------------------------------------------------------
(* AuthData::is_ready *)

\* has_salt(now) of AuthData.h: update_salt(now), then whether server_salt_
\* is still valid at the server time.
has_salt(current, future, diff, now) ==
  LET u == update_salt(current, future, diff, now) IN
  [valid |-> u.server_salt.valid_until > get_server_time(diff, now),
   server_salt |-> u.server_salt, future_salts |-> u.future_salts]

\* is_ready without the test of use_pfs().
IsReadyIgnoresPfs(main, pfs, tmp, current, future, diff, now) ==
  IF ~main
  THEN [ready |-> FALSE, server_salt |-> current, future_salts |-> future]
  ELSE LET h == has_salt(current, future, diff, now) IN
       [ready |-> h.valid, server_salt |-> h.server_salt,
        future_salts |-> h.future_salts]

\* is_ready with the salt taken for valid.
IsReadyIgnoresSalt(main, pfs, tmp, current, future, diff, now) ==
  IF ~main
  THEN [ready |-> FALSE, server_salt |-> current, future_salts |-> future]
  ELSE IF pfs /\ ~tmp
  THEN [ready |-> FALSE, server_salt |-> current, future_salts |-> future]
  ELSE LET h == has_salt(current, future, diff, now) IN
       [ready |-> TRUE, server_salt |-> h.server_salt,
        future_salts |-> h.future_salts]

\* What is_ready(now) returns and the salts after it; main, pfs and tmp are
\* what has_main_auth_key(), use_pfs() and has_tmp_auth_key(now) answer.
\* has_salt is reached, and the salts advanced, only past the two key tests.
is_ready(main, pfs, tmp, current, future, diff, now) ==
  IF ~main
  THEN [ready |-> FALSE, server_salt |-> current, future_salts |-> future]
  ELSE IF pfs /\ ~tmp
  THEN [ready |-> FALSE, server_salt |-> current, future_salts |-> future]
  ELSE LET h == has_salt(current, future, diff, now) IN
       [ready |-> h.valid, server_salt |-> h.server_salt,
        future_salts |-> h.future_salts]

-----------------------------------------------------------------------------
(* Inputs *)

MakeId(seconds, low) == seconds * ShiftUnit + low

\* Inbound message ids: odd and even ones, ids 30, 31 and 330 seconds apart
\* (the edges of the inbound window), and an id with the sign bit set.
MessageIds ==
  { MakeId(0, 1), MakeId(30, 1), MakeId(31, 1), MakeId(330, 1), -1,
    MakeId(30, 2) }

SessionIds == {1, 2}

\* Local times, in ticks: the ticks 0 .. MaxNowTick, and whole seconds.
MaxNowTick == 0
NowSeconds == {40}
Nows == (0 .. MaxNowTick) \cup { s * TicksPerSec : s \in NowSeconds }

\* Candidate differences passed to update_server_time_difference directly:
\* within a few ticks of one another (around Epsilon), and seconds apart.
MaxDiffTick == 3
DiffSeconds == {-1, 0}
Diffs == { s * TicksPerSec + e : s \in DiffSeconds, e \in 0 .. MaxDiffTick }
CoarseDiffs == { -TicksPerSec, 400 * TicksPerSec }

\* Local times passed to next_message_id: quarters of a second.
MaxMintQuarter == 3
MintNows == { k * (TicksPerSec \div 4) : k \in 0 .. MaxMintQuarter }

\* Random draws of next_message_id.
RandomDraws == 0 .. JitterUnit * MulUnit - 1

\* How far beyond the fixed point of now next_message_id is let to take
\* last_message_id_ in the model.
MaxMintAhead == 64

\* A local time and candidate differences for an AuthData whose local clock
\* is 40 seconds ahead of the server's.
DriftNows == { 40 * TicksPerSec }
DriftDiffs == { -40 * TicksPerSec, 0 }

\* The random salt of a new AuthData: one value stands for them all, a salt
\* being only stored and handed back.
InitialSalts == {100}

\* Salts the server may send: valid for ten seconds each, two of them with
\* the same valid_since.
SaltPool ==
  { [salt |-> 1, valid_since |-> 10 * TicksPerSec, valid_until |-> 20 * TicksPerSec],
    [salt |-> 2, valid_since |-> 20 * TicksPerSec, valid_until |-> 30 * TicksPerSec],
    [salt |-> 3, valid_since |-> 30 * TicksPerSec, valid_until |-> 40 * TicksPerSec],
    [salt |-> 4, valid_since |-> 20 * TicksPerSec, valid_until |-> 30 * TicksPerSec] }

\* The lists passed to set_future_salts: up to MaxSalts distinct salts of the
\* pool, in the order of their salt values, which is not the order of their
\* valid_since (std::sort makes the order of the list immaterial).
MaxSalts == 3
ListOf(S) ==
  CHOOSE q \in [1 .. Cardinality(S) -> S] :
    \A i, j \in 1 .. Cardinality(S) : i < j => q[i].salt < q[j].salt
SaltLists == { ListOf(S) : S \in { T \in SUBSET SaltPool : Cardinality(T) <= MaxSalts } }

\* Local times passed to the salt operations.
SaltNows == { s * TicksPerSec : s \in {0, 20, 25, 35} }

\* What has_main_auth_key(), use_pfs() and has_tmp_auth_key(now) may answer.
KeyStates == [main : BOOLEAN, pfs : BOOLEAN, tmp : BOOLEAN]

\* Inputs of the operations when all of them run on one AuthData: a few of
\* each kind.
SessionMessageIds == { MakeId(0, 1), MakeId(330, 1) }
SessionNows == { 0, 35 * TicksPerSec }
SessionDraws == { 0, JitterUnit * MulUnit - 1 }
SessionSaltLists == { <<>>, ListOf({ s \in SaltPool : s.salt <= 2 }) }
SessionKeyStates == { k \in KeyStates : k.tmp => k.pfs }

-----------------------------------------------------------------------------
(* State machine *)

\* The arg_keys of an operation that does not consult the key state.
NoKeys == [main |-> FALSE, pfs |-> FALSE, tmp |-> FALSE]

\* AuthData::AuthData(); the in-class initialisers are in AuthData.h.
Init ==
  /\ saved_message_ids = {}
  /\ session_id = 1
  /\ server_time_difference = 0
  /\ server_time_difference_was_updated = FALSE
  /\ last_message_id = 0
  /\ \E salt \in InitialSalts :
       server_salt = [salt |-> salt, valid_since |-> SaltNever,
                      valid_until |-> SaltNever]
  /\ future_salts = <<>>
  /\ admitted = <<>>
  /\ succeeded = {}
  /\ op = "new"
  /\ arg_session_id = 0
  /\ arg_salts = <<>>
  /\ arg_keys = NoKeys
  /\ arg_message_id = 0
  /\ arg_now = 0
  /\ status = "OK"
  /\ result = FALSE

CheckPacket(sid, message_id, now) ==
  LET r == check_packet(saved_message_ids, server_time_difference,
                        server_time_difference_was_updated, session_id,
                        sid, message_id, now, FALSE)
  IN
  /\ saved_message_ids' = r.saved
  /\ admitted' = IF r.saved # saved_message_ids
                 THEN Append(admitted, message_id)
                 ELSE admitted
  /\ succeeded' = IF r.status = "OK"
                  THEN succeeded \cup {message_id}
                  ELSE succeeded
  /\ server_time_difference' = r.diff
  /\ server_time_difference_was_updated' = r.was_updated
  /\ op' = "check_packet"
  /\ arg_salts' = <<>>
  /\ arg_keys' = NoKeys
  /\ arg_session_id' = sid
  /\ arg_message_id' = message_id
  /\ arg_now' = now
  /\ status' = r.status
  /\ result' = r.time_updated
  /\ UNCHANGED <<session_id, last_message_id, server_salt, future_salts>>

UpdateServerTimeDifference(diff) ==
  LET u == update_server_time_difference(
             server_time_difference, server_time_difference_was_updated, diff)
  IN
  /\ server_time_difference' = u.diff
  /\ server_time_difference_was_updated' = u.was_updated
  /\ op' = "update_server_time_difference"
  /\ arg_salts' = <<>>
  /\ arg_keys' = NoKeys
  /\ arg_session_id' = 0
  /\ arg_message_id' = 0
  /\ arg_now' = diff
  /\ status' = "OK"
  /\ result' = u.updated
  /\ UNCHANGED <<saved_message_ids, session_id, last_message_id, server_salt,
                 future_salts, admitted, succeeded>>

\* MessageIdDuplicateChecker::check called on the checker itself.
Check(message_id) ==
  LET c == check(saved_message_ids, message_id) IN
  /\ saved_message_ids' = c.saved
  /\ admitted' = IF c.status = "OK" THEN Append(admitted, message_id) ELSE admitted
  /\ op' = "check"
  /\ arg_salts' = <<>>
  /\ arg_keys' = NoKeys
  /\ arg_session_id' = 0
  /\ arg_message_id' = message_id
  /\ arg_now' = 0
  /\ status' = c.status
  /\ result' = FALSE
  /\ UNCHANGED <<session_id, server_time_difference,
                 server_time_difference_was_updated, last_message_id, server_salt,
                 future_salts, succeeded>>

\* next_message_id(now) with the random draw rx.  The conversion of
\* server_time to int64 and the addition are defined only within int64.
NextMessageId(now, rx) ==
  LET id == next_message_id(server_time_difference, last_message_id, now, rx) IN
  /\ FixedPoint(get_server_time(server_time_difference, now)) \in MinInt64 .. MaxInt64
  /\ id <= FixedPoint(now) + MaxMintAhead
  /\ last_message_id' = id
  /\ op' = "next_message_id"
  /\ arg_salts' = <<>>
  /\ arg_keys' = NoKeys
  /\ arg_session_id' = 0
  /\ arg_message_id' = 0
  /\ arg_now' = now
  /\ status' = "OK"
  /\ result' = FALSE
  /\ UNCHANGED <<saved_message_ids, session_id, server_time_difference,
                 server_time_difference_was_updated, server_salt, future_salts,
                 admitted, succeeded>>

\* set_future_salts running update_salt on an empty list too.
SetFutureSaltsAlwaysAdvances(salts, now) ==
  /\ \E sorted \in SortedDescending(IF salts = <<>> THEN future_salts ELSE salts) :
       LET u == update_salt(server_salt, sorted, server_time_difference, now)
       IN /\ server_salt' = u.server_salt
          /\ future_salts' = u.future_salts
  /\ op' = "set_future_salts"
  /\ arg_session_id' = 0
  /\ arg_message_id' = 0
  /\ arg_now' = now
  /\ arg_salts' = salts
  /\ arg_keys' = NoKeys
  /\ status' = "OK"
  /\ result' = FALSE
  /\ UNCHANGED <<saved_message_ids, session_id, server_time_difference,
                 server_time_difference_was_updated, last_message_id, admitted,
                 succeeded>>

\* set_future_salts(salts, now); sorted is the order std::sort leaves.
SetFutureSalts(salts, now) ==
  /\ IF salts = <<>>
     THEN UNCHANGED <<server_salt, future_salts>>
     ELSE \E sorted \in SortedDescending(salts) :
            LET u == update_salt(server_salt, sorted, server_time_difference, now)
            IN /\ server_salt' = u.server_salt
               /\ future_salts' = u.future_salts
  /\ op' = "set_future_salts"
  /\ arg_session_id' = 0
  /\ arg_message_id' = 0
  /\ arg_now' = now
  /\ arg_salts' = salts
  /\ arg_keys' = NoKeys
  /\ status' = "OK"
  /\ result' = FALSE
  /\ UNCHANGED <<saved_message_ids, session_id, server_time_difference,
                 server_time_difference_was_updated, last_message_id, admitted,
                 succeeded>>

\* get_server_salt(now) of AuthData.h: update_salt(now), then the salt of
\* server_salt_ is returned.
GetServerSalt(now) ==
  LET u == update_salt(server_salt, future_salts, server_time_difference, now) IN
  /\ server_salt' = u.server_salt
  /\ future_salts' = u.future_salts
  /\ op' = "get_server_salt"
  /\ arg_session_id' = 0
  /\ arg_message_id' = 0
  /\ arg_now' = now
  /\ arg_salts' = <<>>
  /\ arg_keys' = NoKeys
  /\ status' = "OK"
  /\ result' = FALSE
  /\ UNCHANGED <<saved_message_ids, session_id, server_time_difference,
                 server_time_difference_was_updated, last_message_id, admitted,
                 succeeded>>

\* has_salt(now) of AuthData.h.
HasSalt(now) ==
  LET h == has_salt(server_salt, future_salts, server_time_difference, now) IN
  /\ server_salt' = h.server_salt
  /\ future_salts' = h.future_salts
  /\ op' = "has_salt"
  /\ arg_session_id' = 0
  /\ arg_message_id' = 0
  /\ arg_now' = now
  /\ arg_salts' = <<>>
  /\ arg_keys' = NoKeys
  /\ status' = "OK"
  /\ result' = h.valid
  /\ UNCHANGED <<saved_message_ids, session_id, server_time_difference,
                 server_time_difference_was_updated, last_message_id, admitted,
                 succeeded>>

\* is_ready(now), the key state answering keys.
IsReady(keys, now) ==
  LET r == is_ready(keys.main, keys.pfs, keys.tmp, server_salt, future_salts,
                    server_time_difference, now)
  IN
  /\ server_salt' = r.server_salt
  /\ future_salts' = r.future_salts
  /\ op' = "is_ready"
  /\ arg_session_id' = 0
  /\ arg_message_id' = 0
  /\ arg_now' = now
  /\ arg_salts' = <<>>
  /\ arg_keys' = keys
  /\ status' = "OK"
  /\ result' = r.ready
  /\ UNCHANGED <<saved_message_ids, session_id, server_time_difference,
                 server_time_difference_was_updated, last_message_id, admitted,
                 succeeded>>

\* The inbound path of an AuthData.
NextInbound ==
  \/ \E sid \in SessionIds, message_id \in MessageIds, now \in Nows :
       CheckPacket(sid, message_id, now)
  \/ \E diff \in CoarseDiffs : UpdateServerTimeDifference(diff)

SpecInbound == Init /\ [][NextInbound]_vars

\* A MessageIdDuplicateChecker on its own.
NextWindow == \E message_id \in MessageIds : Check(message_id)

SpecWindow == Init /\ [][NextWindow]_vars

\* The clock and the outbound id generator of an AuthData.
NextClock ==
  \/ \E diff \in Diffs : UpdateServerTimeDifference(diff)
  \/ \E now \in MintNows, rx \in RandomDraws : NextMessageId(now, rx)

SpecClock == Init /\ [][NextClock]_vars

\* The clock and the outbound id generator of an AuthData whose local clock
\* is ahead of the server's.
NextMint ==
  \/ \E diff \in DriftDiffs : UpdateServerTimeDifference(diff)
  \/ \E now \in DriftNows, rx \in RandomDraws : NextMessageId(now, rx)

SpecMint == Init /\ [][NextMint]_vars

\* The salt store of an AuthData and its readiness.
NextSalt ==
  \/ \E salts \in SaltLists, now \in SaltNows : SetFutureSalts(salts, now)
  \/ \E now \in SaltNows : GetServerSalt(now)
  \/ \E now \in SaltNows : HasSalt(now)
  \/ \E keys \in KeyStates, now \in SaltNows : IsReady(keys, now)
  \/ \E diff \in CoarseDiffs : UpdateServerTimeDifference(diff)

SpecSalt == Init /\ [][NextSalt]_vars

\* Every operation on one AuthData, each with a few inputs.
NextSession ==
  \/ \E message_id \in SessionMessageIds :
       CheckPacket(session_id, message_id, 0)
  \/ \E diff \in CoarseDiffs : UpdateServerTimeDifference(diff)
  \/ \E rx \in SessionDraws : NextMessageId(0, rx)
  \/ \E salts \in SessionSaltLists, now \in SessionNows :
       SetFutureSalts(salts, now)
  \/ \E now \in SessionNows : GetServerSalt(now)
  \/ \E now \in SessionNows : HasSalt(now)
  \/ \E keys \in SessionKeyStates, now \in SessionNows : IsReady(keys, now)

SpecSession == Init /\ [][NextSession]_vars

\* An AuthData the server has sent no salts to: every operation, with
\* set_future_salts passed the empty list only.
NextFresh ==
  \/ \E message_id \in SessionMessageIds :
       CheckPacket(session_id, message_id, 0)
  \/ \E diff \in CoarseDiffs : UpdateServerTimeDifference(diff)
  \/ \E rx \in SessionDraws : NextMessageId(0, rx)
  \/ \E now \in SessionNows : SetFutureSalts(<<>>, now)
  \/ \E now \in SessionNows : GetServerSalt(now)
  \/ \E now \in SessionNows : HasSalt(now)
  \/ \E keys \in SessionKeyStates, now \in SessionNows : IsReady(keys, now)

SpecFresh == Init /\ [][NextFresh]_vars

\* Every operation of an AuthData.  The claims are checked on the parts
\* above, each of which keeps the members it does not touch at their initial
\* values.
Next ==
  \/ \E sid \in SessionIds, message_id \in MessageIds, now \in Nows :
       CheckPacket(sid, message_id, now)
  \/ \E diff \in Diffs \cup CoarseDiffs : UpdateServerTimeDifference(diff)
  \/ \E now \in MintNows, rx \in RandomDraws : NextMessageId(now, rx)
  \/ \E salts \in SaltLists, now \in SaltNows : SetFutureSalts(salts, now)
  \/ \E now \in SaltNows : GetServerSalt(now)
  \/ \E now \in SaltNows : HasSalt(now)
  \/ \E keys \in KeyStates, now \in SaltNows : IsReady(keys, now)

Spec == Init /\ [][Next]_vars

-----------------------------------------------------------------------------
(* Claims *)

Full == Cardinality(saved_message_ids) = MAX_SAVED_MESSAGE_IDS

Range(seq) == { seq[i] : i \in 1 .. Len(seq) }

\* The step is a call of check_packet / of check.
IsCheckPacket == op' = "check_packet"
IsCheck == op' = "check"

\* The step leaves the duplicate window and the clock as they were.
InboundStateKept ==
  /\ saved_message_ids' = saved_message_ids
  /\ server_time_difference' = server_time_difference
  /\ server_time_difference_was_updated' = server_time_difference_was_updated

\* C1: right after check_packet accepted a message id, check_packet with that
\* id and the session's own id returns the Duplicate error, whatever now is.
C1_ReadmitIsDuplicate ==
  [][ (/\ op = "check_packet" /\ status = "OK"
       /\ IsCheckPacket
       /\ arg_session_id' = session_id
       /\ arg_message_id' = arg_message_id)
      => status' = "Duplicate" ]_vars

\* A message id has been accepted into a window that was already full.
C1_Witness ==
  /\ op = "check_packet" /\ status = "OK"
  /\ Full /\ Len(admitted) > MAX_SAVED_MESSAGE_IDS
  /\ arg_message_id \in saved_message_ids

\* C2: the duplicate window never holds more than MAX_SAVED_MESSAGE_IDS ids.
C2_WindowBounded == Cardinality(saved_message_ids) <= MAX_SAVED_MESSAGE_IDS

\* The window is full after an insertion that made check evict an id.
C2_Witness ==
  /\ op = "check_packet" /\ Full
  /\ Len(admitted) > MAX_SAVED_MESSAGE_IDS
  /\ admitted[Len(admitted)] = arg_message_id

\* C3: on a full window whose least id is M, check(id) with id < M returns
\* TooOld and leaves the window as it was.
C3_TooOldKeepsWindow ==
  [][ (IsCheck /\ Full /\ arg_message_id' < Min(saved_message_ids))
      => (status' = "TooOld" /\ saved_message_ids' = saved_message_ids) ]_vars

\* check has just rejected an id below the least id of a full window.
C3_Witness ==
  /\ op = "check" /\ status = "TooOld" /\ Full
  /\ arg_message_id < Min(saved_message_ids)

\* C4 (as claimed): a check_packet that returns an error leaves the duplicate
\* window, the server time difference and its was_updated flag unchanged.
C4_RejectionLeavesState ==
  [][ (IsCheckPacket /\ status' # "OK") => InboundStateKept ]_vars

\* C5: check_packet tests in the order session id, parity, duplicate window,
\* time window: a foreign session id gives WrongSession whatever the id is,
\* then an even id gives BadParity, both leaving the window and the clock
\* alone; an id the window rejects gets the window's verdict (TooOld below
\* the least id of a full window, else Duplicate when stored), never
\* StaleOrFutureId.
C5_CheckOrder ==
  [][ IsCheckPacket =>
        LET own == arg_session_id' = session_id
            odd == arg_message_id' % 2 = 1
            too_old == Full /\ arg_message_id' < Min(saved_message_ids)
        IN
        /\ ~own => (status' = "WrongSession" /\ InboundStateKept)
        /\ (own /\ ~odd) => (status' = "BadParity" /\ InboundStateKept)
        /\ (own /\ odd /\ too_old) => status' = "TooOld"
        /\ (own /\ odd /\ ~too_old /\ arg_message_id' \in saved_message_ids)
             => status' = "Duplicate" ]_vars

\* The window's verdict was returned for an id that is outside the inbound
\* time window at the now of the call.
C5_Witness ==
  /\ op = "check_packet" /\ status \in {"Duplicate", "TooOld"}
  /\ server_time_difference_was_updated
  /\ ~is_valid_inbound_msg_id(server_time_difference, arg_message_id, arg_now)

\* C6 (as claimed): on a fresh session check_packet with the session's id and
\* any odd message id succeeds and reports the time difference as updated.
C6_FirstMessageAdmitted ==
  [][ (/\ saved_message_ids = {}
       /\ ~server_time_difference_was_updated
       /\ IsCheckPacket
       /\ arg_session_id' = session_id
       /\ arg_message_id' % 2 = 1)
      => (status' = "OK" /\ result' = TRUE) ]_vars

\* C7: every id next_message_id returns is greater than the one returned
\* before it (than the initial last_message_id_ for the first) and is a
\* multiple of 4, whatever now and the random draw are and whatever updates
\* of the time difference come between.
C7_MintedIdsIncrease ==
  [][ op' = "next_message_id"
      => (last_message_id' > last_message_id /\ last_message_id' % 4 = 0) ]_vars

\* An id was minted by the stride: the clock-derived candidate was not above
\* the last id.
C7_Witness ==
  /\ op = "next_message_id"
  /\ server_time_difference_was_updated
  /\ last_message_id
       > FixedPoint(get_server_time(server_time_difference, arg_now)) + JitterUnit

\* C8 (as claimed): every update_server_time_difference, the first included,
\* leaves the stored difference at least what it was, and after the first
\* it changes only when the candidate exceeds it by more than Epsilon.
C8_NeverDecreases ==
  [][ op' = "update_server_time_difference"
      => /\ server_time_difference' >= server_time_difference
         /\ (server_time_difference_was_updated
              /\ server_time_difference' # server_time_difference)
             => arg_now' > server_time_difference + Epsilon ]_vars

\* C8 (amended): the first update_server_time_difference stores its candidate
\* whatever it is; every later one leaves the stored difference at least
\* what it was, and changes it only when the candidate exceeds it by more
\* than Epsilon.
C8_NeverDecreasesAfterFirst ==
  [][ op' = "update_server_time_difference"
      => /\ ~server_time_difference_was_updated
             => server_time_difference' = arg_now'
         /\ server_time_difference_was_updated
             => /\ server_time_difference' >= server_time_difference
                /\ server_time_difference' # server_time_difference
                   => arg_now' > server_time_difference + Epsilon ]_vars

\* A later update was given a candidate above the stored difference by no
\* more than Epsilon and did not adopt it.
C8_Witness ==
  /\ op = "update_server_time_difference"
  /\ result = FALSE
  /\ arg_now > server_time_difference
  /\ arg_now <= server_time_difference + Epsilon

\* C9 (as claimed): once the time difference was updated, check_packet does not
\* accept an id whose time is 30 seconds or more ahead of the server time
\* computed from the difference in effect before the call.
C9_FutureIdRejected ==
  [][ (/\ server_time_difference_was_updated
       /\ IsCheckPacket
       /\ id_time(arg_message_id') * TicksPerSec
            >= get_server_time(server_time_difference, arg_now')
               + 30 * TicksPerSec)
      => status' # "OK" ]_vars

\* The step is set_future_salts with a non-empty list, or get_server_salt.
IsSaltStep ==
  \/ op' = "set_future_salts" /\ arg_salts' # <<>>
  \/ op' = "get_server_salt"

\* The future salts update_salt works on in the step: the list passed to
\* set_future_salts, else the stored ones.
StoredFuture ==
  IF op' = "set_future_salts" THEN Range(arg_salts') ELSE Range(future_salts)

\* The server time of the step's call.
StepServerTime == get_server_time(server_time_difference, arg_now')

\* Every salt left in future_salts has valid_since >= the server time.
FutureNotStarted ==
  \A i \in 1 .. Len(future_salts') :
    future_salts'[i].valid_since >= StepServerTime

\* C10 (as claimed): after set_future_salts with a non-empty list, or after
\* get_server_salt, server_salt is the salt of greatest valid_since among the
\* previous server_salt and the stored future salts whose valid_since is
\* below the server time, and every salt left in future_salts has
\* valid_since >= the server time.
C10_CurrentIsLatestKnown ==
  [][ IsSaltStep =>
        LET started == { s \in {server_salt} \cup StoredFuture :
                           s.valid_since < StepServerTime }
        IN /\ server_salt' \in started
           /\ \A s \in started : s.valid_since <= server_salt'.valid_since
           /\ FutureNotStarted ]_vars

\* C10 (amended): after set_future_salts with a non-empty list, or after
\* get_server_salt, every salt left in future_salts has valid_since >= the
\* server time; if some stored future salt has valid_since below the server
\* time, server_salt is one of those of greatest valid_since, whatever the
\* previous server_salt was, and otherwise server_salt is unchanged.
C10_CurrentIsLatestStarted ==
  [][ IsSaltStep =>
        LET started == { s \in StoredFuture : s.valid_since < StepServerTime }
        IN /\ started # {} =>
                /\ server_salt' \in started
                /\ \A s \in started : s.valid_since <= server_salt'.valid_since
           /\ started = {} => server_salt' = server_salt
           /\ FutureNotStarted ]_vars

\* Salts with valid_since 10, 20 and 30 seconds were stored and the server
\* time is past 30 seconds: server_salt is the one of 30 seconds and no
\* future salt is left.
C10_Witness ==
  /\ op = "set_future_salts" /\ Len(arg_salts) = 3
  /\ { arg_salts[i].valid_since : i \in 1 .. 3 }
       = { 10 * TicksPerSec, 20 * TicksPerSec, 30 * TicksPerSec }
  /\ get_server_time(server_time_difference, arg_now) > 30 * TicksPerSec
  /\ server_salt.valid_since = 30 * TicksPerSec
  /\ future_salts = <<>>

\* The salt is valid at the server time of the step's call once the future
\* salts that have started are promoted: server_salt' is that salt.
SaltValidAfterAdvance ==
  update_salt(server_salt, future_salts, server_time_difference, arg_now')
    .server_salt.valid_until > StepServerTime

\* C11: is_ready(now) returns true exactly when has_main_auth_key() is true,
\* use_pfs() is false or has_tmp_auth_key(now) is true, and the salt store
\* has a valid salt at now; so it returns false whenever has_main_auth_key()
\* is false, whatever the salts and the temporary key are.
C11_ReadyIffKeysAndSalt ==
  [][ op' = "is_ready" =>
        /\ result' = (/\ arg_keys'.main
                      /\ (~arg_keys'.pfs \/ arg_keys'.tmp)
                      /\ SaltValidAfterAdvance)
        /\ ~arg_keys'.main => result' = FALSE ]_vars

\* is_ready returned true with use_pfs() true: both keys are there, the salt
\* is valid at the server time of the call, and future salts remain.
C11_Witness ==
  /\ op = "is_ready" /\ result = TRUE
  /\ arg_keys = [main |-> TRUE, pfs |-> TRUE, tmp |-> TRUE]
  /\ server_salt.valid_until > get_server_time(server_time_difference, arg_now)
  /\ future_salts # <<>>

\* C12: while server_time_difference_was_updated_ is false no check_packet
\* has returned OK, and no operation sets it back to false once it is true.
C12_WasUpdatedLatches ==
  /\ [](~server_time_difference_was_updated => succeeded = {})
  /\ [][server_time_difference_was_updated
          => server_time_difference_was_updated']_vars

\* The flag is set, a message has been admitted, ids have been minted and a
\* salt promoted since.
C12_Witness ==
  /\ server_time_difference_was_updated
  /\ succeeded # {}
  /\ last_message_id > 0
  /\ server_salt.valid_until # SaltNever
  /\ op = "is_ready"

\* The last MAX_SAVED_MESSAGE_IDS elements of seq, all of it when shorter.
LastN(seq) ==
  IF Len(seq) <= MAX_SAVED_MESSAGE_IDS
  THEN seq
  ELSE SubSeq(seq, Len(seq) - MAX_SAVED_MESSAGE_IDS + 1, Len(seq))

Increasing(seq) == \A i \in 1 .. Len(seq) - 1 : seq[i] < seq[i + 1]

\* C13 (as claimed): the duplicate window holds exactly the
\* MAX_SAVED_MESSAGE_IDS ids check accepted last (all of them while fewer
\* were accepted).
C13_MostRecentlyAdmitted == saved_message_ids = Range(LastN(admitted))

\* C13 (amended): the duplicate window holds ids check accepted, as many as
\* were accepted up to MAX_SAVED_MESSAGE_IDS, the id accepted last among
\* them; it holds exactly the MAX_SAVED_MESSAGE_IDS accepted last when the
\* ids were accepted in increasing order.
C13_MostRecentWhenIncreasing ==
  /\ saved_message_ids \subseteq Range(admitted)
  /\ Cardinality(saved_message_ids)
       = Min({MAX_SAVED_MESSAGE_IDS, Len(admitted)})
  /\ admitted # <<>> => admitted[Len(admitted)] \in saved_message_ids
  /\ Increasing(admitted) => saved_message_ids = Range(LastN(admitted))

\* More ids than the window holds were accepted, in increasing order, and
\* the earliest accepted is no longer stored.
C13_Witness ==
  /\ op = "check" /\ status = "OK"
  /\ Len(admitted) > MAX_SAVED_MESSAGE_IDS
  /\ Increasing(admitted)
  /\ admitted[1] \notin saved_message_ids

\* C14: set_future_salts with an empty list leaves server_salt_ and
\* future_salts_ as they were, also when a stored future salt has a
\* valid_since below the server time of the call.
C14_EmptyListIsNoOp ==
  [][ (op' = "set_future_salts" /\ arg_salts' = <<>>)
      => (server_salt' = server_salt /\ future_salts' = future_salts) ]_vars

\* set_future_salts was called with an empty list while the last stored
\* future salt had already started, and it is still in future_salts.
C14_Witness ==
  /\ op = "set_future_salts" /\ arg_salts = <<>>
  /\ future_salts # <<>>
  /\ future_salts[Len(future_salts)].valid_since
       < get_server_time(server_time_difference, arg_now)

\* C15: a message id for which check_packet returned OK lies in the inbound
\* time window of the server time computed, for the now of the call, from the
\* time difference as it is after the call: more than 300 seconds back or 30
\* seconds or more ahead it is not.
C15_AdmittedWithinWindow ==
  (op = "check_packet" /\ status = "OK")
    => LET server_time == get_server_time(server_time_difference, arg_now)
           id_ticks == id_time(arg_message_id) * TicksPerSec
       IN /\ server_time - 300 * TicksPerSec < id_ticks
          /\ id_ticks < server_time + 30 * TicksPerSec

\* check_packet returned OK for an id older than the server time, without
\* adopting the id's time as the time difference.
C15_Witness ==
  /\ op = "check_packet" /\ status = "OK" /\ result = FALSE
  /\ id_time(arg_message_id) * TicksPerSec
       < get_server_time(server_time_difference, arg_now)

\* C16: an id for which check_packet has returned OK never gets OK again:
\* with the session's own id, check_packet returns Duplicate for it while it
\* is stored and TooOld once it was evicted; a full window stays full and
\* its least id never decreases.
C16_NoReadmission ==
  /\ [][ (IsCheckPacket /\ arg_message_id' \in succeeded)
         => /\ status' # "OK"
            /\ arg_session_id' = session_id
                 => status' = IF arg_message_id' \in saved_message_ids
                              THEN "Duplicate"
                              ELSE "TooOld" ]_vars
  /\ [][ Full => (Full' /\ Min(saved_message_ids') >= Min(saved_message_ids)) ]_vars

\* An id check_packet had returned OK for was evicted and, presented again,
\* rejected as TooOld.
C16_Witness ==
  /\ op = "check_packet" /\ status = "TooOld"
  /\ arg_message_id \in succeeded
  /\ arg_message_id \notin saved_message_ids

\* The MAX_SAVED_MESSAGE_IDS greatest elements of S, all of S when fewer.
LargestN(S) ==
  { x \in S : Cardinality({ y \in S : y > x }) < MAX_SAVED_MESSAGE_IDS }

\* C17: the duplicate window is the set of the MAX_SAVED_MESSAGE_IDS greatest
\* ids among all the ids check has accepted (all of them when fewer were
\* accepted), in whatever order they arrived.
C17_WindowIsLargestAdmitted ==
  saved_message_ids = LargestN(Range(admitted))

\* More ids than the window holds were accepted, not in increasing order,
\* and an id accepted after the first one has been evicted.
C17_Witness ==
  /\ op = "check" /\ status = "OK"
  /\ Len(admitted) > MAX_SAVED_MESSAGE_IDS
  /\ ~Increasing(admitted)
  /\ admitted[1] \in saved_message_ids
  /\ \E i \in 2 .. Len(admitted) : admitted[i] \notin saved_message_ids

C19_FutureSaltsDescending ==
  /\ [](\A i \in 1 .. Len(future_salts) - 1 :
          future_salts[i].valid_since >= future_salts[i + 1].valid_since)
  /\ [][ server_salt' # server_salt
         => \A i \in 1 .. Len(future_salts') :
              server_salt'.valid_since <= future_salts'[i].valid_since ]_vars

\* Of three salts stored with different valid_since, passed in another
\* order, the earliest was promoted by a later call and two are left.
C19_Witness ==
  /\ op \in {"get_server_salt", "has_salt", "is_ready"}
  /\ Len(future_salts) = 2
  /\ future_salts[1].valid_since > future_salts[2].valid_since
  /\ server_salt.valid_since # SaltNever
  /\ server_salt.valid_since < future_salts[2].valid_since

\* C20: as long as set_future_salts was not called with a non-empty list,
\* server_salt is the salt of the constructor, valid until SaltNever, no
\* future salt is stored, and has_salt and is_ready return false whatever
\* now and the keys are and whatever check_packet, next_message_id and
\* update_server_time_difference did before.
C20_NoSaltNotReady ==
  /\ server_salt.valid_until = SaltNever
  /\ future_salts = <<>>
  /\ op \in {"has_salt", "is_ready"} => result = FALSE

\* is_ready returned false with the main key there and no need of a
\* temporary one, after a message was admitted and an id minted.
C20_Witness ==
  /\ op = "is_ready" /\ result = FALSE
  /\ arg_keys = [main |-> TRUE, pfs |-> FALSE, tmp |-> FALSE]
  /\ succeeded # {}
  /\ last_message_id > 0
  /\ server_time_difference_was_updated

====
